---- MODULE Spec2Model ----
(***************************************************************************)
(* Model of compressWithVectorQuantization (src/datacompression11/App.tsx, *)
(* lines 242-405): one invocation of the colour-quantization pipeline.     *)
(*                                                                         *)
(* The promise executor registers FileReader and Image callbacks; each     *)
(* callback runs to completion on the single JavaScript thread.  The body  *)
(* of img.onload is split at its stage comments (resize, vectorization,    *)
(* codebook generation, reconstruction, encoding); pc is the position in   *)
(* it.  Nothing else can run between two of those positions.               *)
(*                                                                         *)
(* Sequences are 1-based here and 0-based in the source: codebook index j  *)
(* of the source is index j + 1 of the model.  A pixel is <<r, g, b, a>>   *)
(* (four consecutive bytes of ImageData.data), a colour is <<r, g, b>>.    *)
(***************************************************************************)
EXTENDS Integers, Sequences, FiniteSets, TLC

\* ---- bounds of the model ------------------------------------------------
\* The source sets K = 64, MAX_ITERATIONS = 10, PIXEL_SAMPLE_SIZE = 40000 and
\* MAX_DIMENSION = 256 (lines 255-258); the model runs the same code with the
\* four scaled down, keeping K < PIXEL_SAMPLE_SIZE < MaxPixels, so that every
\* image of up to MaxPixels pixels is enumerated and both exits of the
\* clustering loop (convergence and the iteration cap) are taken.
K == 2
MAX_ITERATIONS == 2
PIXEL_SAMPLE_SIZE == 3
MAX_DIMENSION == 3
\* largest natural width/height of a source image
MaxSrcDim == 7
\* largest decoded buffer (width * height) that is enumerated
MaxPixels == 4
\* largest file.size; the encoder may produce one byte more
MaxFileSize == 2

\* ---- program constants --------------------------------------------------
\* line 286: imgData[i + 3] > 128
AlphaThreshold == 128

\* ---- input alphabets ----------------------------------------------------
\* two colours within rounding distance of each other and a distant one
Colours == {<<0, 0, 0>>, <<1, 1, 1>>, <<255, 128, 0>>}
Alphas == {0, 128, 255}
PixelValues == {<<c[1], c[2], c[3], a>> : c \in Colours, a \in Alphas}
FileTypes == {"image/png", "image/jpeg", "image/gif"}
Files == [size : 1..MaxFileSize, type : FileTypes]
NaturalSizes == (1..MaxSrcDim) \X (1..MaxSrcDim)
\* the contents getImageData may deliver for an nw x nh image drawn onto n
\* pixels: every buffer, for an image of up to MaxPixels pixels drawn at its
\* natural size; the opaque single-colour buffers, for a larger or a
\* downscaled image
DecodedBuffers(nw, nh, n) ==
    IF n <= MaxPixels /\ nw * nh = n
    THEN [1..n -> PixelValues]
    ELSE {[i \in 1..n |-> <<c[1], c[2], c[3], 255>>] : c \in Colours}


ErrNoData == "Could not read file data."
ErrNoContext == "Failed to get canvas context"
ErrEmpty == "Image appears to be empty or fully transparent."
ErrDecode == "Failed to load image for Vector Quantization. The file may be corrupt."
ErrRead == "Failed to read the selected file."
ErrorMessages == {ErrNoData, ErrNoContext, ErrEmpty, ErrDecode, ErrRead}

VARIABLES
    file,            \* the File argument: [size, type]
    pc,              \* position of the invocation
    promise,         \* [state, reason, value]: the promise returned to the caller
    resolveCalls,    \* number of calls of resolve
    rejectCalls,     \* number of calls of reject
    reads,           \* number of reader.readAsDataURL calls
    loads,           \* number of img.src assignments
    originalDataUrl, \* e.target.result of the reader
    naturalWidth,    \* img.width
    naturalHeight,   \* img.height
    width, height,   \* canvas.width, canvas.height
    imgData,         \* imageData.data as a sequence of pixels (<<>>: not read yet)
    pixels,          \* RGB of the visible pixels, scan order
    trainingPixels,
    codebook,
    assignments,
    iter,            \* number of completed k-means iterations
    hasChanged,
    newImageData,    \* [width, height, data]
    vqCompressedSize,
    other,           \* a second invocation in flight, while its callbacks do not run
    app,             \* the state of the App component (lines 791-799)
    calls            \* the handleFileSelect calls made so far, oldest first

vars == <<file, pc, promise, resolveCalls, rejectCalls, reads, loads,
          originalDataUrl, naturalWidth, naturalHeight, width, height,
          imgData, pixels, trainingPixels, codebook, assignments, iter,
          hasChanged, newImageData, vqCompressedSize, other, app, calls>>

\* ---- helpers ------------------------------------------------------------
Sq(x) == x * x

\* Math.round(num / den) for num >= 0, den > 0: ties go up
MathRound(num, den) == (2 * num + den) \div (2 * den)

\* a data URL: its media type, and the bytes it encodes (those of the file,
\* or the canvas encoder's rendering of a pixel sequence)
DataUrl(mime, source, data) == [mime |-> mime, source |-> source, data |-> data]
\* a missing e.target.result
NoDataUrl == DataUrl("", "null", <<>>)
\* no ImageData yet
NoImageData == [width |-> 0, height |-> 0, data |-> <<>>]
\* ---- 1. Pre-process: resize (lines 264-276) -----------------------------
\* variant: the scaled side is truncated instead of rounded
ResizedSize_Truncating(w, h) ==
    IF w > h
    THEN IF w > MAX_DIMENSION
         THEN <<MAX_DIMENSION, (h * MAX_DIMENSION) \div w>>
         ELSE <<w, h>>
    ELSE IF h > MAX_DIMENSION
         THEN <<(w * MAX_DIMENSION) \div h, MAX_DIMENSION>>
         ELSE <<w, h>>

ResizedSize(w, h) ==
    IF w > h
    THEN IF w > MAX_DIMENSION
         THEN <<MAX_DIMENSION, MathRound(h * MAX_DIMENSION, w)>>
         ELSE <<w, h>>
    ELSE IF h > MAX_DIMENSION
         THEN <<MathRound(w * MAX_DIMENSION, h), MAX_DIMENSION>>
         ELSE <<w, h>>

\* ---- 2. Vectorization (lines 284-289) -----------------------------------
\* variant: the threshold itself counts as visible
IsVisible_Inclusive(px) == px[4] >= AlphaThreshold

IsVisible(px) == px[4] > AlphaThreshold

RECURSIVE VisiblePixels(_)
VisiblePixels(data) ==
    IF data = <<>> THEN <<>>
    ELSE LET px == Head(data)
         IN  IF IsVisible(px)
             THEN <<<<px[1], px[2], px[3]>>>> \o VisiblePixels(Tail(data))
             ELSE VisiblePixels(Tail(data))

\* ---- 3. Codebook generation (lines 294-340) -----------------------------
\* variant: the sample is drawn with replacement
Subsamples_WithReplacement(px) ==
    IF Len(px) > PIXEL_SAMPLE_SIZE
    THEN {[i \in 1..PIXEL_SAMPLE_SIZE |-> px[f[i]]] :
            f \in [1..PIXEL_SAMPLE_SIZE -> 1..Len(px)]}
    ELSE {px}

\* variant: the training set is never cut down to the sample size
Subsamples_NoCap(px) == {px}

\* variant: the pixels are rearranged whether or not they exceed the sample size
Subsamples_AlwaysShuffled(px) ==
    LET n == IF Len(px) > PIXEL_SAMPLE_SIZE THEN PIXEL_SAMPLE_SIZE ELSE Len(px)
    IN  {[i \in 1..n |-> px[f[i]]] :
            f \in {g \in [1..n -> 1..Len(px)] :
                     \A a, b \in 1..n : a # b => g[a] # g[b]}}

\* [...pixels].sort(() => 0.5 - Math.random()).slice(0, PIXEL_SAMPLE_SIZE):
\* the first PIXEL_SAMPLE_SIZE elements of some rearrangement of pixels
Subsamples(px) ==
    IF Len(px) > PIXEL_SAMPLE_SIZE
    THEN {[i \in 1..PIXEL_SAMPLE_SIZE |-> px[f[i]]] :
            f \in {g \in [1..PIXEL_SAMPLE_SIZE -> 1..Len(px)] :
                     \A a, b \in 1..PIXEL_SAMPLE_SIZE : a # b => g[a] # g[b]}}
    ELSE {px}

\* variant: every entry is seeded with the first training vector
SeedCodebook_FirstOnly(tp) ==
    [j \in 1..(IF Len(tp) < K THEN Len(tp) ELSE K) |-> tp[1]]

\* trainingPixels.slice(0, K).map(p => [...p])
SeedCodebook(tp) == SubSeq(tp, 1, IF Len(tp) < K THEN Len(tp) ELSE K)

euclideanDistanceSq(v1, v2) ==
    Sq(v1[1] - v2[1]) + Sq(v1[2] - v2[2]) + Sq(v1[3] - v2[3])

\* variant: on equal distances the later index wins
RECURSIVE NearestFrom_LastMin(_, _, _, _, _, _)
NearestFrom_LastMin(v, cb, j, hasMin, minDistance, bestIndex) ==
    IF j > Len(cb) THEN bestIndex
    ELSE LET distance == euclideanDistanceSq(v, cb[j])
         IN  IF (~hasMin) \/ distance <= minDistance
             THEN NearestFrom_LastMin(v, cb, j + 1, TRUE, distance, j)
             ELSE NearestFrom_LastMin(v, cb, j + 1, hasMin, minDistance, bestIndex)

\* the inner loop of lines 304-312 from index j on; hasMin = FALSE stands
\* for minDistance = Infinity
RECURSIVE NearestFrom(_, _, _, _, _, _)
NearestFrom(v, cb, j, hasMin, minDistance, bestIndex) ==
    IF j > Len(cb) THEN bestIndex
    ELSE LET distance == euclideanDistanceSq(v, cb[j])
         IN  IF (~hasMin) \/ distance < minDistance
             THEN NearestFrom(v, cb, j + 1, TRUE, distance, j)
             ELSE NearestFrom(v, cb, j + 1, hasMin, minDistance, bestIndex)

NearestIndex(v, cb) == NearestFrom(v, cb, 1, FALSE, 0, 1)

\* lines 303-314
Assign(tp, cb) == [i \in 1..Len(tp) |-> NearestIndex(tp[i], cb)]

\* lines 316-325: channel sums and counts of the K accumulators
RECURSIVE ChannelSum(_, _, _, _, _)
ChannelSum(tp, asg, k, ch, i) ==
    IF i > Len(tp) THEN 0
    ELSE (IF asg[i] = k THEN tp[i][ch] ELSE 0) + ChannelSum(tp, asg, k, ch, i + 1)

Counts(tp, asg) == [k \in 1..K |-> Cardinality({i \in 1..Len(tp) : asg[i] = k})]

NewCodebookSums(tp, asg) ==
    [k \in 1..K |-> <<ChannelSum(tp, asg, k, 1, 1),
                      ChannelSum(tp, asg, k, 2, 1),
                      ChannelSum(tp, asg, k, 3, 1)>>]

\* variant: the mean is truncated instead of rounded
NewCentroid_Truncated(sums, count) ==
    <<sums[1] \div count, sums[2] \div count, sums[3] \div count>>

\* line 330
NewCentroid(sums, count) ==
    <<MathRound(sums[1], count), MathRound(sums[2], count), MathRound(sums[3], count)>>

\* line 331: euclideanDistanceSq(newCentroid, codebook[i]) > 1e-4
Moved(newCentroid, old) == euclideanDistanceSq(newCentroid, old) * 10000 > 1

\* variant: an empty cluster keeps the zeroed accumulator instead of being
\* re-initialized
UpdatedCodebook_NoReseed(tp, cb, asg, rnd) ==
    LET counts == Counts(tp, asg)
        sums == NewCodebookSums(tp, asg)
    IN  [i \in 1..Len(cb) |->
            IF counts[i] > 0 THEN NewCentroid(sums[i], counts[i])
            ELSE <<0, 0, 0>>]

\* lines 327-338; rnd[i] is Math.floor(Math.random() * trainingPixels.length) + 1
\* for the empty cluster i
UpdatedCodebook(tp, cb, asg, rnd) ==
    LET counts == Counts(tp, asg)
        sums == NewCodebookSums(tp, asg)
    IN  [i \in 1..Len(cb) |->
            IF counts[i] > 0 THEN NewCentroid(sums[i], counts[i])
            ELSE tp[rnd[i]]]

\* variant: a recomputed centroid always counts as a change (the new array
\* is compared with the old one by identity)
HasChanged_ByIdentity(tp, cb, asg) ==
    \E i \in 1..Len(cb) : Counts(tp, asg)[i] > 0

HasChanged(tp, cb, asg) ==
    LET counts == Counts(tp, asg)
        sums == NewCodebookSums(tp, asg)
    IN  \E i \in 1..Len(cb) :
            counts[i] > 0 /\ Moved(NewCentroid(sums[i], counts[i]), cb[i])

EmptyClusters(tp, cb, asg) == {i \in 1..Len(cb) : Counts(tp, asg)[i] = 0}

\* ---- 4. Reconstruction (lines 343-369) ----------------------------------
\* a write into a Uint8ClampedArray
ToUint8Clamped(x) == IF x < 0 THEN 0 ELSE IF x > 255 THEN 255 ELSE x

\* lines 353-361, the Mapper's own search loop
RECURSIVE MapperNearestFrom(_, _, _, _, _, _, _, _)
MapperNearestFrom(r, g, b, cb, j, hasMin, minDistance, bestIndex) ==
    IF j > Len(cb) THEN bestIndex
    ELSE LET distance == Sq(r - cb[j][1]) + Sq(g - cb[j][2]) + Sq(b - cb[j][3])
         IN  IF (~hasMin) \/ distance < minDistance
             THEN MapperNearestFrom(r, g, b, cb, j + 1, TRUE, distance, j)
             ELSE MapperNearestFrom(r, g, b, cb, j + 1, hasMin, minDistance, bestIndex)

\* variant: the cache key keeps only the high four bits of each channel
ColorKey_Coarse(px) == <<px[1] \div 16, px[2] \div 16, px[3] \div 16>>

\* line 347: the key `${r},${g},${b}`; the decimal rendering of three bytes
\* separated by commas is one-to-one, so the key is the triple itself
ColorKey(px) == <<px[1], px[2], px[3]>>

\* variant: pixels that are not visible keep their own colour
FinalColor_SkipInvisible(px, cb, pixelMap) ==
    IF px[4] > AlphaThreshold
    THEN cb[MapperNearestFrom(px[1], px[2], px[3], cb, 1, FALSE, 0, 1)]
    ELSE <<px[1], px[2], px[3]>>

\* the colour looked up or computed for one pixel, given pixelMap (a function
\* from colour keys to colours)
FinalColor(px, cb, pixelMap) ==
    LET originalColorKey == ColorKey(px)
    IN  IF originalColorKey \in DOMAIN pixelMap
        THEN pixelMap[originalColorKey]
        ELSE cb[MapperNearestFrom(px[1], px[2], px[3], cb, 1, FALSE, 0, 1)]

\* variant: the output is written fully opaque
OutputPixel_Opaque(finalColor, px) ==
    <<ToUint8Clamped(finalColor[1]), ToUint8Clamped(finalColor[2]),
      ToUint8Clamped(finalColor[3]), 255>>

\* one pixel of newImageData.data (lines 365-368)
OutputPixel(finalColor, px) ==
    <<ToUint8Clamped(finalColor[1]), ToUint8Clamped(finalColor[2]),
      ToUint8Clamped(finalColor[3]), px[4]>>

\* the loop of lines 345-369 from pixel i on
RECURSIVE ReconstructFrom(_, _, _, _)
ReconstructFrom(data, cb, i, pixelMap) ==
    IF i > Len(data) THEN <<>>
    ELSE LET px == data[i]
             key == ColorKey(px)
             finalColor == FinalColor(px, cb, pixelMap)
             nextMap == IF key \in DOMAIN pixelMap THEN pixelMap
                        ELSE (key :> finalColor) @@ pixelMap
         IN  <<OutputPixel(finalColor, px)>> \o ReconstructFrom(data, cb, i + 1, nextMap)

Reconstruct(data, cb) == ReconstructFrom(data, cb, 1, <<>>)

\* ---- 5. Encode and select (lines 373-399) -------------------------------
\* a percentage kept exact as a fraction num / den
Percentage(num, den) == [num |-> num, den |-> den]
ZeroPercentage == Percentage(0, 1)

\* variant: the statistics always report the quantized size
Select_ReportsVqSize(f, origUrl, vqUrl, vqSize) ==
    [finalDataUrl |-> IF vqSize < f.size THEN vqUrl ELSE origUrl,
     stats |-> [originalSize |-> f.size,
                compressedSize |-> vqSize,
                reductionPercentage |->
                    IF vqSize < f.size
                    THEN Percentage((f.size - vqSize) * 100, f.size)
                    ELSE ZeroPercentage],
     mimeType |-> IF vqSize < f.size THEN "image/png" ELSE f.type,
     compressionApplied |-> vqSize < f.size]

\* variant: the quantized image is also chosen when the sizes are equal
Select_OnEquality(f, origUrl, vqUrl, vqSize) ==
    IF vqSize <= f.size
    THEN [finalDataUrl |-> vqUrl,
          stats |-> [originalSize |-> f.size,
                     compressedSize |-> vqSize,
                     reductionPercentage |-> Percentage((f.size - vqSize) * 100, f.size)],
          mimeType |-> "image/png",
          compressionApplied |-> TRUE]
    ELSE [finalDataUrl |-> origUrl,
          stats |-> [originalSize |-> f.size,
                     compressedSize |-> f.size,
                     reductionPercentage |-> ZeroPercentage],
          mimeType |-> f.type,
          compressionApplied |-> FALSE]

Select(f, origUrl, vqUrl, vqSize) ==
    IF vqSize < f.size
    THEN [finalDataUrl |-> vqUrl,
          stats |-> [originalSize |-> f.size,
                     compressedSize |-> vqSize,
                     reductionPercentage |-> Percentage((f.size - vqSize) * 100, f.size)],
          mimeType |-> "image/png",
          compressionApplied |-> TRUE]
    ELSE [finalDataUrl |-> origUrl,
          stats |-> [originalSize |-> f.size,
                     compressedSize |-> f.size,
                     reductionPercentage |-> ZeroPercentage],
          mimeType |-> f.type,
          compressionApplied |-> FALSE]
\* ---- the promise (line 243) ---------------------------------------------
\* the value of a promise that is not fulfilled
NoResult ==
    [finalDataUrl |-> NoDataUrl,
     stats |-> [originalSize |-> 0, compressedSize |-> 0,
                reductionPercentage |-> ZeroPercentage],
     mimeType |-> "",
     compressionApplied |-> FALSE]

\* resolve and reject settle a pending promise and leave a settled one alone
Settle(p, state, reason, value) ==
    IF p.state = "pending"
    THEN [state |-> state, reason |-> reason, value |-> value]
    ELSE p

Reject(message) ==
    /\ promise' = Settle(promise, "rejected", message, NoResult)
    /\ rejectCalls' = rejectCalls + 1
    /\ UNCHANGED resolveCalls

Resolve(result) ==
    /\ promise' = Settle(promise, "fulfilled", "", result)
    /\ resolveCalls' = resolveCalls + 1
    /\ UNCHANGED rejectCalls

NoSettle == UNCHANGED <<promise, resolveCalls, rejectCalls>>

\* ---- state machine ------------------------------------------------------
\* lines 243-245: the executor has run, reader.readAsDataURL(file) is pending
Started ==
    /\ file \in Files
    /\ pc = "reading"
    /\ promise = [state |-> "pending", reason |-> "", value |-> NoResult]
    /\ resolveCalls = 0
    /\ rejectCalls = 0
    /\ reads = 1
    /\ loads = 0
    /\ originalDataUrl = NoDataUrl
    /\ naturalWidth = 0
    /\ naturalHeight = 0
    /\ width = 0
    /\ height = 0
    /\ imgData = <<>>
    /\ pixels = <<>>
    /\ trainingPixels = <<>>
    /\ codebook = <<>>
    /\ assignments = <<>>
    /\ iter = 0
    /\ hasChanged = FALSE
    /\ newImageData = NoImageData
    /\ vqCompressedSize = 0

\* ---- invocations in flight together --------------------------------------
\* Every variable above is declared inside the function or its callbacks
\* (lines 243-399), so each call has its own. The variables of the model are
\* those of the invocation whose callback runs or ran last; other holds those
\* of a second invocation between its callbacks.
Snapshot ==
    [file |-> file,
     pc |-> pc,
     promise |-> promise,
     resolveCalls |-> resolveCalls,
     rejectCalls |-> rejectCalls,
     reads |-> reads,
     loads |-> loads,
     originalDataUrl |-> originalDataUrl,
     naturalWidth |-> naturalWidth,
     naturalHeight |-> naturalHeight,
     width |-> width,
     height |-> height,
     imgData |-> imgData,
     pixels |-> pixels,
     trainingPixels |-> trainingPixels,
     codebook |-> codebook,
     assignments |-> assignments,
     iter |-> iter,
     hasChanged |-> hasChanged,
     newImageData |-> newImageData,
     vqCompressedSize |-> vqCompressedSize]

\* a second invocation that has just been called with file f
NewInvocation(f) ==
    [file |-> f,
     pc |-> "reading",
     promise |-> [state |-> "pending", reason |-> "", value |-> NoResult],
     resolveCalls |-> 0,
     rejectCalls |-> 0,
     reads |-> 1,
     loads |-> 0,
     originalDataUrl |-> NoDataUrl,
     naturalWidth |-> 0,
     naturalHeight |-> 0,
     width |-> 0,
     height |-> 0,
     imgData |-> <<>>,
     pixels |-> <<>>,
     trainingPixels |-> <<>>,
     codebook |-> <<>>,
     assignments |-> <<>>,
     iter |-> 0,
     hasChanged |-> FALSE,
     newImageData |-> NoImageData,
     vqCompressedSize |-> 0]

\* the function has been called once only
NoInvocation == [NewInvocation([size |-> 0, type |-> ""]) EXCEPT !.pc = "absent"]

\* variant: the codebook is one object shared by all invocations
Restore_SharedCodebook(s) ==
    /\ file' = s.file
    /\ pc' = s.pc
    /\ promise' = s.promise
    /\ resolveCalls' = s.resolveCalls
    /\ rejectCalls' = s.rejectCalls
    /\ reads' = s.reads
    /\ loads' = s.loads
    /\ originalDataUrl' = s.originalDataUrl
    /\ naturalWidth' = s.naturalWidth
    /\ naturalHeight' = s.naturalHeight
    /\ width' = s.width
    /\ height' = s.height
    /\ imgData' = s.imgData
    /\ pixels' = s.pixels
    /\ trainingPixels' = s.trainingPixels
    /\ UNCHANGED codebook
    /\ assignments' = s.assignments
    /\ iter' = s.iter
    /\ hasChanged' = s.hasChanged
    /\ newImageData' = s.newImageData
    /\ vqCompressedSize' = s.vqCompressedSize

\* the callback that runs next finds the variables of its own invocation
Restore(s) ==
    /\ file' = s.file
    /\ pc' = s.pc
    /\ promise' = s.promise
    /\ resolveCalls' = s.resolveCalls
    /\ rejectCalls' = s.rejectCalls
    /\ reads' = s.reads
    /\ loads' = s.loads
    /\ originalDataUrl' = s.originalDataUrl
    /\ naturalWidth' = s.naturalWidth
    /\ naturalHeight' = s.naturalHeight
    /\ width' = s.width
    /\ height' = s.height
    /\ imgData' = s.imgData
    /\ pixels' = s.pixels
    /\ trainingPixels' = s.trainingPixels
    /\ codebook' = s.codebook
    /\ assignments' = s.assignments
    /\ iter' = s.iter
    /\ hasChanged' = s.hasChanged
    /\ newImageData' = s.newImageData
    /\ vqCompressedSize' = s.vqCompressedSize

\* ---- the App component: its state (lines 791-799) ------------------------
NoFile == [size |-> 0, type |-> ""]
\* error: null, or the message as the pieces it is put together from
NoError == <<>>
ErrInvalidType == <<"Invalid file type. Please upload an image.">>
ProcessingError(message) ==
    <<"An error occurred: ", message, ". Please try again with a different image.">>
\* a ProcessedImage {dataUrl, name}: the name is file.name (of), with the
\* prefix vq_ when vq is TRUE; NoImage is null
NoImage == [of |-> NoFile, dataUrl |-> NoDataUrl, vq |-> FALSE]
\* an AnalysisResult, tagged with the file it was computed for; NoAnalysis is null
NoAnalysis == [of |-> NoFile, diseaseName |-> ""]
\* the bounding boxes, tagged with the file they were computed for; NoBoxes is null
NoBoxes == [of |-> NoFile]

\* the state after mounting
MountedApp ==
    [isLoading |-> FALSE,
     isLoadingExplanation |-> FALSE,
     error |-> NoError,
     originalImage |-> NoImage,
     processedImage |-> NoImage,
     compressionStats |-> NoResult.stats,
     analysisResult |-> NoAnalysis,
     visualExplanation |-> NoBoxes,
     compressionApplied |-> FALSE]

Init ==
    /\ Started
    /\ other = NoInvocation
    /\ app = MountedApp
    /\ calls = <<>>

\* variant: the rejection for missing data does not return
ReaderOnLoad_NoReturn ==
    /\ pc = "reading"
    /\ \E result \in {NoDataUrl, DataUrl(file.type, "file", <<>>)} :
          /\ originalDataUrl' = result
          /\ IF result = NoDataUrl THEN Reject(ErrNoData) ELSE NoSettle
          /\ loads' = loads + 1
          /\ pc' = "loading"
    /\ UNCHANGED <<app, calls, other, file, reads, naturalWidth, naturalHeight, width, height,
                   imgData, pixels, trainingPixels,
                   codebook, assignments, iter, hasChanged, newImageData,
                   vqCompressedSize>>

\* reader.onload (lines 246-252): e.target?.result is the data URL or missing
ReaderOnLoad ==
    /\ pc = "reading"
    /\ \E result \in {NoDataUrl, DataUrl(file.type, "file", <<>>)} :
          /\ originalDataUrl' = result
          /\ IF result = NoDataUrl
             THEN /\ Reject(ErrNoData)
                  /\ pc' = "done"
                  /\ UNCHANGED loads
             ELSE /\ NoSettle
                  /\ loads' = loads + 1
                  /\ pc' = "loading"
    /\ UNCHANGED <<app, calls, other, file, reads, naturalWidth, naturalHeight, width, height,
                   imgData, pixels, trainingPixels,
                   codebook, assignments, iter, hasChanged, newImageData,
                   vqCompressedSize>>

\* reader.onerror (line 403)
ReaderOnError ==
    /\ pc = "reading"
    /\ Reject(ErrRead)
    /\ pc' = "done"
    /\ UNCHANGED <<app, calls, other, file, reads, loads, originalDataUrl, naturalWidth, naturalHeight,
                   width, height, imgData,
                   pixels, trainingPixels, codebook, assignments, iter,
                   hasChanged, newImageData, vqCompressedSize>>

\* img.onerror (line 401)
ImgOnError ==
    /\ pc = "loading"
    /\ Reject(ErrDecode)
    /\ pc' = "done"
    /\ UNCHANGED <<app, calls, other, file, reads, loads, originalDataUrl, naturalWidth, naturalHeight,
                   width, height, imgData,
                   pixels, trainingPixels, codebook, assignments, iter,
                   hasChanged, newImageData, vqCompressedSize>>

\* img.onload, lines 253-281: canvas context, resize, drawImage, getImageData.
\* getImageData throws IndexSizeError when the width or the height is 0; the
\* exception leaves the event handler and nothing settles the promise.
ImgOnLoad ==
    /\ pc = "loading"
    /\ \E ctx \in BOOLEAN, size \in NaturalSizes :
          LET resized == ResizedSize(size[1], size[2])
          IN  /\ naturalWidth' = size[1]
              /\ naturalHeight' = size[2]
              /\ IF ~ctx
                 THEN /\ Reject(ErrNoContext)
                      /\ pc' = "done"
                      /\ UNCHANGED <<width, height, imgData>>
                 ELSE /\ width' = resized[1]
                      /\ height' = resized[2]
                      /\ NoSettle
                      /\ IF resized[1] = 0 \/ resized[2] = 0
                         THEN /\ pc' = "threw"
                              /\ UNCHANGED imgData
                         ELSE /\ pc' = "vectorize"
                              /\ imgData' \in DecodedBuffers(size[1], size[2], resized[1] * resized[2])
    /\ UNCHANGED <<app, calls, other, file, reads, loads, originalDataUrl, pixels, trainingPixels,
                   codebook, assignments, iter, hasChanged, newImageData,
                   vqCompressedSize>>

\* lines 283-290
Vectorize ==
    /\ pc = "vectorize"
    /\ pixels' = VisiblePixels(imgData)
    /\ IF Len(pixels') = 0
       THEN /\ Reject(ErrEmpty)
            /\ pc' = "done"
       ELSE /\ NoSettle
            /\ pc' = "train"
    /\ UNCHANGED <<app, calls, other, file, reads, loads, originalDataUrl, naturalWidth, naturalHeight,
                   width, height, imgData,
                   trainingPixels, codebook, assignments, iter, hasChanged,
                   newImageData, vqCompressedSize>>

\* lines 294-300: training set and seeded codebook
Train ==
    /\ pc = "train"
    /\ trainingPixels' \in Subsamples(pixels)
    /\ codebook' = SeedCodebook(trainingPixels')
    /\ iter' = 0
    /\ pc' = "kmeans"
    /\ NoSettle
    /\ UNCHANGED <<app, calls, other, file, reads, loads, originalDataUrl, naturalWidth, naturalHeight,
                   width, height, imgData,
                   pixels, assignments, hasChanged, newImageData, vqCompressedSize>>

\* one pass of the loop body, lines 302-340
KMeansIteration ==
    /\ pc = "kmeans"
    /\ iter < MAX_ITERATIONS
    /\ LET asg == Assign(trainingPixels, codebook)
           changed == HasChanged(trainingPixels, codebook, asg)
       IN  /\ assignments' = asg
           /\ \E rnd \in [EmptyClusters(trainingPixels, codebook, asg)
                            -> 1..Len(trainingPixels)] :
                 codebook' = UpdatedCodebook(trainingPixels, codebook, asg, rnd)
           /\ hasChanged' = changed
           /\ iter' = iter + 1
           /\ pc' = IF (~changed) \/ iter + 1 >= MAX_ITERATIONS
                    THEN "reconstruct" ELSE "kmeans"
    /\ NoSettle
    /\ UNCHANGED <<app, calls, other, file, reads, loads, originalDataUrl, naturalWidth, naturalHeight,
                   width, height, imgData,
                   pixels, trainingPixels, newImageData, vqCompressedSize>>

\* lines 342-370
Reconstruction ==
    /\ pc = "reconstruct"
    /\ newImageData' = [width |-> width, height |-> height,
                        data |-> Reconstruct(imgData, codebook)]
    /\ pc' = "encode"
    /\ NoSettle
    /\ UNCHANGED <<app, calls, other, file, reads, loads, originalDataUrl, naturalWidth, naturalHeight,
                   width, height, imgData,
                   pixels, trainingPixels, codebook, assignments, iter,
                   hasChanged, vqCompressedSize>>

\* lines 372-399: the PNG encoder decides the byte length
EncodeAndSelect ==
    /\ pc = "encode"
    /\ \E size \in 1..(MaxFileSize + 1) :
          /\ vqCompressedSize' = size
          /\ Resolve(Select(file, originalDataUrl,
                            DataUrl("image/png", "canvas", newImageData.data), size))
    /\ pc' = "done"
    /\ UNCHANGED <<app, calls, other, file, reads, loads, originalDataUrl, naturalWidth, naturalHeight,
                   width, height, imgData,
                   pixels, trainingPixels, codebook, assignments, iter,
                   hasChanged, newImageData>>

Next ==
    \/ ReaderOnLoad
    \/ ReaderOnError
    \/ ImgOnLoad
    \/ ImgOnError
    \/ Vectorize
    \/ Train
    \/ KMeansIteration
    \/ Reconstruction
    \/ EncodeAndSelect

Spec == Init /\ [][Next]_vars

\* ---- two invocations -----------------------------------------------------
\* the event loop runs one callback at a time: between two callbacks of this
\* invocation, a callback of the other invocation (its reader.onload,
\* reader.onerror, img.onload or img.onerror) may be the next to run
Switch ==
    /\ pc \in {"reading", "loading", "done", "threw"}
    /\ other.pc \in {"reading", "loading"}
    /\ Restore(other)
    /\ other' = Snapshot
    /\ UNCHANGED <<app, calls>>

\* the inputs considered when two invocations run together: files of the
\* largest size, images drawn at their natural size with at most
\* PairMaxPixels pixels, each black or orange, opaque or transparent
PairMaxPixels == 2
PairFiles == {f \in Files : f.size = MaxFileSize /\ f.type = "image/jpeg"}
PairPixelValues ==
    {<<c[1], c[2], c[3], a>> : c \in {<<0, 0, 0>>, <<255, 128, 0>>}, a \in {0, 255}}
PairScope ==
    /\ naturalWidth * naturalHeight <= PairMaxPixels
    /\ \A i \in 1..Len(imgData) : imgData[i] \in PairPixelValues

PairInit ==
    /\ Started
    /\ file \in PairFiles
    /\ \E f \in PairFiles : other = NewInvocation(f)
    /\ app = MountedApp
    /\ calls = <<>>

PairNext ==
    \/ Switch
    \/ (Next /\ PairScope')

PairSpec == PairInit /\ [][PairNext]_vars

\* ---- the App component: handleFileSelect (lines 831-888) ------------------
\* the variables of compressWithVectorQuantization
pipeline ==
    <<file, pc, promise, resolveCalls, rejectCalls, reads, loads, originalDataUrl,
      naturalWidth, naturalHeight, width, height, imgData, pixels, trainingPixels, codebook,
      assignments, iter, hasChanged, newImageData, vqCompressedSize>>
\* compressWithVectorQuantization has not been called yet
Idle ==
    /\ file = NoInvocation.file
    /\ pc = NoInvocation.pc
    /\ promise = NoInvocation.promise
    /\ resolveCalls = NoInvocation.resolveCalls
    /\ rejectCalls = NoInvocation.rejectCalls
    /\ reads = NoInvocation.reads
    /\ loads = NoInvocation.loads
    /\ originalDataUrl = NoInvocation.originalDataUrl
    /\ naturalWidth = NoInvocation.naturalWidth
    /\ naturalHeight = NoInvocation.naturalHeight
    /\ width = NoInvocation.width
    /\ height = NoInvocation.height
    /\ imgData = NoInvocation.imgData
    /\ pixels = NoInvocation.pixels
    /\ trainingPixels = NoInvocation.trainingPixels
    /\ codebook = NoInvocation.codebook
    /\ assignments = NoInvocation.assignments
    /\ iter = NoInvocation.iter
    /\ hasChanged = NoInvocation.hasChanged
    /\ newImageData = NoInvocation.newImageData
    /\ vqCompressedSize = NoInvocation.vqCompressedSize
\* the most handleFileSelect calls considered
MaxSelections == 2

\* file.type.startsWith('image/'), over the types considered
StartsWithImage(type) == type \in {"image/png", "image/jpeg", "image/gif"}
AppFiles ==
    {[size |-> MaxFileSize, type |-> t] : t \in {"image/png", "image/gif", "text/plain"}}

\* messages of the errors thrown after the pipeline
ErrAnalysis == "The AI returned an invalid response format. Please try again."
ErrNoDiagnosis == "Cannot read properties of undefined (reading 'diseaseName')"

\* one call of handleFileSelect: its argument, where it stands, whether its
\* originalReader has still to deliver, and its two local variables
Call(f, stage, reading) ==
    [file |-> f, stage |-> stage, originalReader |-> reading,
     dataUrlForAnalysis |-> NoDataUrl, mimeTypeForAnalysis |-> ""]

\* lines 821-829
resetState(a) ==
    [a EXCEPT !.error = NoError,
              !.originalImage = NoImage,
              !.processedImage = NoImage,
              !.compressionStats = NoResult.stats,
              !.analysisResult = NoAnalysis,
              !.visualExplanation = NoBoxes,
              !.compressionApplied = FALSE]

\* the catch block, lines 881-887
Caught(a, message) ==
    [a EXCEPT !.error = ProcessingError(message),
              !.isLoading = FALSE,
              !.isLoadingExplanation = FALSE]

\* variant: an invalid file also clears the results of the previous one
Invalid_ClearsResults(a) == [resetState(a) EXCEPT !.error = ErrInvalidType]

\* lines 832-835
Invalid(a) == [a EXCEPT !.error = ErrInvalidType]

\* handleFileSelect up to its first await (lines 831-851). The uploader
\* passes a file on only while it is enabled (lines 444, 484, 896).
HandleFileSelect ==
    /\ ~app.isLoading
    /\ Len(calls) < MaxSelections
    /\ \E f \in AppFiles :
          IF ~StartsWithImage(f.type)
          THEN /\ app' = Invalid(app)
               /\ calls' = Append(calls, Call(f, "returned", FALSE))
               /\ UNCHANGED pipeline
          ELSE /\ app' = [resetState(app) EXCEPT !.isLoading = TRUE,
                                                 !.isLoadingExplanation = FALSE]
               /\ calls' = Append(calls, Call(f, "compressing", TRUE))
               /\ Restore(NewInvocation(f))
    /\ UNCHANGED other

\* originalReader.onload of some call (line 848)
OriginalReaderOnLoad ==
    /\ \E i \in 1..Len(calls) :
          /\ calls[i].originalReader
          /\ \E result \in {NoDataUrl, DataUrl(calls[i].file.type, "file", <<>>)} :
                app' = [app EXCEPT !.originalImage =
                           [of |-> calls[i].file, dataUrl |-> result, vq |-> FALSE]]
          /\ calls' = [calls EXCEPT ![i].originalReader = FALSE]
    /\ UNCHANGED <<pipeline, other>>

\* the continuation after the await of line 851, once the promise is
\* settled: lines 854-863, or the catch block
AfterCompress ==
    /\ \E i \in 1..Len(calls) :
          /\ calls[i].stage = "compressing"
          /\ promise.state # "pending"
          /\ IF promise.state = "fulfilled"
             THEN LET r == promise.value
                  IN  /\ app' = [app EXCEPT
                                   !.processedImage =
                                       [of |-> calls[i].file, dataUrl |-> r.finalDataUrl,
                                        vq |-> r.compressionApplied],
                                   !.compressionStats = r.stats,
                                   !.compressionApplied = r.compressionApplied]
                      /\ calls' = [calls EXCEPT ![i].stage = "analyzing",
                                                ![i].dataUrlForAnalysis = r.finalDataUrl,
                                                ![i].mimeTypeForAnalysis = r.mimeType]
             ELSE /\ app' = Caught(app, promise.reason)
                  /\ calls' = [calls EXCEPT ![i].stage = "returned"]
    /\ UNCHANGED <<pipeline, other>>

\* the continuation after the await of line 863, when analyzeImageWithGemini
\* has settled: it rejects, or resolves with whatever JSON the model sent
AfterAnalysis ==
    /\ \E i \in 1..Len(calls) :
          /\ calls[i].stage = "analyzing"
          /\ \E outcome \in {"rejected", "Healthy", "Leaf Blight", "no diagnosis"} :
                LET result == [of |-> calls[i].file, diseaseName |-> outcome]
                    stored == [app EXCEPT !.analysisResult = result, !.isLoading = FALSE]
                IN  IF outcome = "rejected"
                    THEN /\ app' = Caught(app, ErrAnalysis)
                         /\ calls' = [calls EXCEPT ![i].stage = "returned"]
                    ELSE IF outcome = "no diagnosis"
                    THEN /\ app' = Caught(stored, ErrNoDiagnosis)
                         /\ calls' = [calls EXCEPT ![i].stage = "returned"]
                    ELSE IF outcome = "Healthy"
                    THEN /\ app' = stored
                         /\ calls' = [calls EXCEPT ![i].stage = "returned"]
                    ELSE /\ app' = [stored EXCEPT !.isLoadingExplanation = TRUE]
                         /\ calls' = [calls EXCEPT ![i].stage = "explaining"]
    /\ UNCHANGED <<pipeline, other>>

\* the continuation after the await of line 872, when getVisualExplanation
\* has settled (lines 873-879)
AfterExplanation ==
    /\ \E i \in 1..Len(calls) :
          /\ calls[i].stage = "explaining"
          /\ \E resolved \in BOOLEAN :
                app' = [(IF resolved
                         THEN [app EXCEPT !.visualExplanation = [of |-> calls[i].file]]
                         ELSE app)
                        EXCEPT !.isLoadingExplanation = FALSE]
          /\ calls' = [calls EXCEPT ![i].stage = "returned"]
    /\ UNCHANGED <<pipeline, other>>

\* the images considered under the App: one pixel, black, opaque or
\* transparent, or a source so narrow that a side of the canvas is 0
AppScope ==
    /\ pc = "threw" \/ naturalWidth * naturalHeight <= 1
    /\ \A i \in 1..Len(imgData) : imgData[i] \in {<<0, 0, 0, 255>>, <<0, 0, 0, 0>>}

AppInit ==
    /\ Idle
    /\ other = NoInvocation
    /\ app = MountedApp
    /\ calls = <<>>

\* a callback or a step of the pipeline of the call in progress
PipelineStep == Next /\ AppScope'

AppNext ==
    \/ HandleFileSelect
    \/ OriginalReaderOnLoad
    \/ PipelineStep
    \/ AfterCompress
    \/ AfterAnalysis
    \/ AfterExplanation

AppSpec == AppInit /\ [][AppNext]_vars

\* the browser delivers the events of the reader and the image and runs the
\* continuation of a settled promise; the diagnosis call settles
AppLive ==
    /\ AppSpec
    /\ WF_vars(PipelineStep)
    /\ WF_vars(AfterCompress)
    /\ WF_vars(AfterAnalysis)
\* ---- properties ---------------------------------------------------------
Range(seq) == {seq[i] : i \in 1..Len(seq)}
Rgb(px) == <<px[1], px[2], px[3]>>
Fulfilled == promise.state = "fulfilled"
Rejected == promise.state = "rejected"
\* the clustering loop has been entered / has been left
Seeded == pc \in {"kmeans", "reconstruct", "encode"} \/ (pc = "done" /\ Fulfilled)
Clustered == pc \in {"reconstruct", "encode"} \/ (pc = "done" /\ Fulfilled)
Mapped == pc = "encode" \/ (pc = "done" /\ Fulfilled)
Decoded == imgData # <<>>
NoVisiblePixel == \A i \in 1..Len(imgData) : ~(imgData[i][4] > 128)
\* every pixel of the decoded buffer is the opaque colour c
SingleColour(c) == \A i \in 1..Len(imgData) : imgData[i] = <<c[1], c[2], c[3], 255>>

\* C1: whenever the promise is fulfilled, stats.compressedSize <= stats.originalSize
\* (the file's size), and if compressionApplied is false then compressedSize
\* equals originalSize and reductionPercentage is 0.
C1_SizeInvariant ==
    Fulfilled =>
        LET r == promise.value
        IN  /\ r.stats.originalSize = file.size
            /\ r.stats.compressedSize <= r.stats.originalSize
            /\ (~r.compressionApplied) =>
                   /\ r.stats.compressedSize = r.stats.originalSize
                   /\ r.stats.reductionPercentage.num = 0

\* the encoder produced more bytes than the file has and the original was kept
C1_Witness ==
    /\ Fulfilled
    /\ vqCompressedSize > file.size
    /\ ~promise.value.compressionApplied

\* C2: from seeding to the end of clustering and after it, the codebook has
\* exactly K entries, whatever the size of the training set.
C2_CodebookHasKEntries == Seeded => Len(codebook) = K

\* C3: the Mapper's output has the width and height of the decoded buffer and
\* every output pixel carries the alpha byte of the input pixel at that index.
C3_AlphaPreserved ==
    Mapped =>
        /\ newImageData.width = width
        /\ newImageData.height = height
        /\ Len(newImageData.data) = width * height
        /\ Len(newImageData.data) = Len(imgData)
        /\ \A i \in 1..Len(imgData) : newImageData.data[i][4] = imgData[i][4]

\* an output with a visible pixel next to pixels of alpha 0 and alpha 128
C3_Witness ==
    /\ Mapped
    /\ \E i, j, k \in 1..Len(imgData) :
          /\ imgData[i][4] = 0 /\ newImageData.data[i][4] = 0
          /\ imgData[j][4] = 128 /\ newImageData.data[j][4] = 128
          /\ imgData[k][4] = 255 /\ newImageData.data[k][4] = 255

\* C4: every output pixel's (R, G, B) is an entry of the final codebook.
C4_QuantizationMembership ==
    Mapped => \A i \in 1..Len(newImageData.data) : Rgb(newImageData.data[i]) \in Range(codebook)

\* an output in which a visible and an invisible pixel got a colour that is
\* not their own
C4_Witness ==
    /\ Mapped
    /\ \E i, j \in 1..Len(imgData) :
          /\ imgData[i][4] > 128 /\ Rgb(imgData[i]) \notin Range(codebook)
          /\ ~(imgData[j][4] > 128) /\ Rgb(imgData[j]) \notin Range(codebook)
          /\ Rgb(newImageData.data[i]) # Rgb(imgData[i])
          /\ Rgb(newImageData.data[j]) # Rgb(imgData[j])

\* C5: an update step after which no codebook entry differs from its value
\* before the step by a squared distance above 1e-4 is the last one: the loop
\* is left, no further iteration follows.
C5_EarlyExit ==
    [][(/\ pc = "kmeans"
        /\ iter' = iter + 1
        /\ Len(codebook') = Len(codebook)
        /\ \A i \in 1..Len(codebook) :
              ~(euclideanDistanceSq(codebook'[i], codebook[i]) * 10000 > 1))
       => pc' = "reconstruct"]_vars

\* the loop was left before the cap, with an empty cluster re-initialized in
\* the last step
C5_Witness ==
    /\ pc = "reconstruct"
    /\ iter < MAX_ITERATIONS
    /\ \E k \in 1..Len(codebook) : \A i \in 1..Len(assignments) : assignments[i] # k

\* C6: the Selector's result is determined by the encoded length q, the file
\* size o, the original data URL and the file's type: the quantized PNG with
\* compressedSize q and reduction (o - q) / o * 100 when q < o, otherwise the
\* original bytes, compressedSize o, reduction 0 and the file's own type.
C6_SelectorRule ==
    Fulfilled =>
        LET r == promise.value
            q == vqCompressedSize
            o == file.size
        IN  /\ r.stats.originalSize = o
            /\ IF q < o
               THEN /\ r.compressionApplied
                    /\ r.finalDataUrl = DataUrl("image/png", "canvas", newImageData.data)
                    /\ r.stats.compressedSize = q
                    /\ r.stats.reductionPercentage.num * o
                          = (o - q) * 100 * r.stats.reductionPercentage.den
                    /\ r.mimeType = "image/png"
               ELSE /\ ~r.compressionApplied
                    /\ r.finalDataUrl = originalDataUrl
                    /\ r.finalDataUrl = DataUrl(file.type, "file", <<>>)
                    /\ r.stats.compressedSize = o
                    /\ r.stats.reductionPercentage.num = 0
                    /\ r.mimeType = file.type

\* the encoded length equals the file size, for a file that is not a PNG
C6_Witness ==
    /\ Fulfilled
    /\ vqCompressedSize = file.size
    /\ file.type # "image/png"

\* C7: a decoded buffer without a pixel of alpha > 128 makes the pipeline
\* reject with the empty-image error; no training set, codebook, iteration,
\* output buffer or encoding is produced and the promise is never fulfilled.
C7_EmptyImage ==
    (Decoded /\ NoVisiblePixel) =>
        /\ ~Fulfilled
        /\ resolveCalls = 0
        /\ pc \in {"vectorize", "done"}
        /\ pc = "done" => (Rejected /\ promise.reason = ErrEmpty)
        /\ trainingPixels = <<>>
        /\ codebook = <<>>
        /\ assignments = <<>>
        /\ iter = 0
        /\ newImageData = NoImageData
        /\ vqCompressedSize = 0

\* rejected for a buffer that has pixels of alpha 0 and of alpha 128 only
C7_Witness ==
    /\ Decoded
    /\ NoVisiblePixel
    /\ pc = "done"
    /\ \E i, j \in 1..Len(imgData) : imgData[i][4] = 0 /\ imgData[j][4] = 128

\* C8: once invoked, the pipeline ends with its promise settled: when no
\* callback or step of the invocation remains to run, the promise is fulfilled
\* or rejected.
C8_TerminalOutcome == pc \in {"done", "threw"} => promise.state # "pending"

\* C9: a failing invocation rejects exactly once with one of the messages,
\* never calls resolve and carries no result; no stage runs twice; resolve
\* and reject together are called at most once; an invocation that ran to its
\* end without failing is fulfilled with a complete output.
C9_FailFast ==
    /\ resolveCalls + rejectCalls <= 1
    /\ reads = 1
    /\ loads <= 1
    /\ Rejected =>
          /\ pc = "done"
          /\ rejectCalls = 1
          /\ resolveCalls = 0
          /\ promise.reason \in ErrorMessages
          /\ promise.value = NoResult
          /\ newImageData = NoImageData
          /\ vqCompressedSize = 0
    /\ pc = "done" => (Rejected \/ Fulfilled)
    /\ Fulfilled =>
          /\ pc = "done"
          /\ resolveCalls = 1
          /\ promise.reason = ""
          /\ Len(newImageData.data) = Len(imgData)

\* rejected because the reader delivered no data
C9_Witness ==
    /\ Rejected
    /\ promise.reason = ErrNoData
    /\ originalDataUrl = NoDataUrl
    /\ loads = 0

\* C10: for a fully opaque buffer of a single colour c, once clustering is
\* over every codebook entry is c, and the Mapper's output equals the input
\* in all four channels, whichever training vectors re-seed empty clusters.
C10_SingleColour ==
    \A c \in Colours :
        (Decoded /\ SingleColour(c)) =>
            /\ Clustered => (codebook # <<>> /\ \A j \in 1..Len(codebook) : codebook[j] = c)
            /\ Mapped => newImageData.data = imgData
            /\ pc = "done" => Fulfilled

\* a single-colour image larger than the sample, quantized with an empty
\* cluster re-seeded
C10_Witness ==
    /\ pc = "done"
    /\ Fulfilled
    /\ Len(imgData) > PIXEL_SAMPLE_SIZE
    /\ \E c \in Colours : c # <<0, 0, 0>> /\ SingleColour(c)
    /\ Len(codebook) = K
    /\ \A i \in 1..Len(assignments) : assignments[i] = 1
\* the decoded buffer is an opaque checkerboard of the colours a and b: the
\* pixel in column x, row y is a when x + y is even and b otherwise
Checkerboard(a, b) ==
    /\ a # b
    /\ Len(imgData) >= 2
    /\ \A i \in 1..Len(imgData) :
          LET x == (i - 1) % width
              y == (i - 1) \div width
              c == IF (x + y) % 2 = 0 THEN a ELSE b
          IN  imgData[i] = <<c[1], c[2], c[3], 255>>
\* the training vectors the codebook is seeded from
SeedVectors == Range(SubSeq(trainingPixels, 1,
                            IF Len(trainingPixels) < K THEN Len(trainingPixels) ELSE K))
ExactReconstruction ==
    \A i \in 1..Len(imgData) : Rgb(newImageData.data[i]) = Rgb(imgData[i])

FullyOpaque == \A i \in 1..Len(imgData) : imgData[i][4] = 255
\* the source image is a square with sides above MAX_DIMENSION (the 300x300
\* image of the scenario, at the scale of the model) and has been decoded
LargeSquareSource ==
    /\ Decoded
    /\ naturalWidth = naturalHeight
    /\ naturalWidth > MAX_DIMENSION
    /\ naturalWidth * naturalHeight > PIXEL_SAMPLE_SIZE

\* C12 as stated: for a fully opaque square source larger than the sample,
\* the training set has exactly PIXEL_SAMPLE_SIZE vectors and the Mapper
\* writes one output pixel for every pixel of the source image (all 90,000
\* of a 300x300 image).
C12_MapsEverySourcePixel ==
    (LargeSquareSource /\ FullyOpaque /\ Mapped) =>
        /\ Len(trainingPixels) = PIXEL_SAMPLE_SIZE
        /\ Len(newImageData.data) = naturalWidth * naturalHeight

\* C12 amended: such a source is first downscaled to MAX_DIMENSION x
\* MAX_DIMENSION; the training set has exactly PIXEL_SAMPLE_SIZE vectors and
\* the Mapper writes one output pixel for every pixel of the downscaled
\* buffer (all 65,536 of the 256x256 buffer), not of the source.
C12_MapsEveryDecodedPixel ==
    (LargeSquareSource /\ FullyOpaque) =>
        /\ width = MAX_DIMENSION
        /\ height = MAX_DIMENSION
        /\ Len(imgData) = MAX_DIMENSION * MAX_DIMENSION
        /\ Seeded => Len(trainingPixels) = PIXEL_SAMPLE_SIZE
        /\ Mapped => /\ Len(newImageData.data) = MAX_DIMENSION * MAX_DIMENSION
                     /\ Len(newImageData.data) < naturalWidth * naturalHeight

\* a large square source, subsampled and mapped
C12_Witness ==
    /\ LargeSquareSource
    /\ FullyOpaque
    /\ pc = "done"
    /\ Fulfilled
    /\ Len(pixels) > Len(trainingPixels)
    /\ Len(newImageData.data) = Len(pixels)
\* the resize step has run: canvas.width and canvas.height are set
Resized ==
    \/ pc \in {"vectorize", "train", "kmeans", "reconstruct", "encode", "threw"}
    \/ (pc = "done" /\ Decoded)
\* r is num / den rounded to the nearest integer, halves upwards
IsRounded(r, num, den) == 2 * den * r <= 2 * num + den /\ 2 * num + den < 2 * den * (r + 1)

\* C14: a source whose longer side exceeds MAX_DIMENSION is decoded with the
\* longer side exactly MAX_DIMENSION and the shorter side
\* round(shorter * MAX_DIMENSION / longer); a source with both sides at most
\* MAX_DIMENSION keeps its size; for wide, tall and square sources.
C14_ResizeRule ==
    Resized =>
        LET w0 == naturalWidth
            h0 == naturalHeight
        IN  IF w0 > MAX_DIMENSION \/ h0 > MAX_DIMENSION
            THEN IF w0 >= h0
                 THEN width = MAX_DIMENSION /\ IsRounded(height, h0 * MAX_DIMENSION, w0)
                 ELSE height = MAX_DIMENSION /\ IsRounded(width, w0 * MAX_DIMENSION, h0)
            ELSE width = w0 /\ height = h0

\* a tall source scaled down with a shorter side that had to be rounded up
C14_Witness ==
    /\ Resized
    /\ naturalHeight > naturalWidth
    /\ naturalHeight > MAX_DIMENSION
    /\ width * naturalHeight > naturalWidth * MAX_DIMENSION
    /\ pc = "vectorize"

\* C15: after the resize step the buffer's width and height are both
\* positive and width * height is at most MAX_DIMENSION squared (65536).
C15_PositiveBoundedSize ==
    Resized =>
        /\ width >= 1
        /\ height >= 1
        /\ width * height <= MAX_DIMENSION * MAX_DIMENSION
VisibleInScanOrder ==
    LET sel == SelectSeq(imgData, LAMBDA px : px[4] > 128)
    IN  [i \in 1..Len(sel) |-> Rgb(sel[i])]
Occurrences(seq, v) == Cardinality({i \in 1..Len(seq) : seq[i] = v})

\* C16: with V visible pixels (alpha > 128) the training set has exactly
\* min(V, PIXEL_SAMPLE_SIZE) vectors, each the RGB of a visible pixel and none
\* used more often than it occurs among the visible pixels; with
\* V <= PIXEL_SAMPLE_SIZE it is the visible pixels' RGB in scan order.
C16_SamplerRule ==
    Seeded =>
        LET visible == VisibleInScanOrder
            V == Len(visible)
        IN  /\ pixels = visible
            /\ Len(trainingPixels) = (IF V > PIXEL_SAMPLE_SIZE THEN PIXEL_SAMPLE_SIZE ELSE V)
            /\ \A c \in Range(trainingPixels) :
                  Occurrences(trainingPixels, c) <= Occurrences(visible, c)
            /\ V <= PIXEL_SAMPLE_SIZE => trainingPixels = visible

\* a subsample that is not a prefix of the visible pixels, drawn from an
\* image in which one colour occurs once
C16_Witness ==
    /\ pc = "kmeans"
    /\ Len(pixels) > PIXEL_SAMPLE_SIZE
    /\ trainingPixels # SubSeq(pixels, 1, PIXEL_SAMPLE_SIZE)
    /\ \E c \in Range(trainingPixels) : Occurrences(pixels, c) = 1
\* squared Euclidean distance of two colours
SqDist(u, v) == (u[1] - v[1]) ^ 2 + (u[2] - v[2]) ^ 2 + (u[3] - v[3]) ^ 2
\* j is the lowest index of cb whose entry is nearest to v
LowestNearest(j, v, cb) ==
    /\ j \in 1..Len(cb)
    /\ \A k \in 1..Len(cb) :
          /\ SqDist(v, cb[k]) >= SqDist(v, cb[j])
          /\ k < j => SqDist(v, cb[k]) > SqDist(v, cb[j])

\* C17: the codebook is seeded with the first K training vectors (all of
\* them when there are fewer), and every iteration assigns each training
\* vector to the lowest codebook index at minimum squared distance.
C17_AssignmentRule ==
    [][/\ (pc = "train" /\ pc' = "kmeans") =>
              /\ Len(codebook') <= K
              /\ Len(codebook') <= Len(trainingPixels')
              /\ \A j \in 1..K :
                    j <= Len(trainingPixels') =>
                        (j <= Len(codebook') /\ codebook'[j] = trainingPixels'[j])
       /\ pc = "kmeans" =>
              /\ DOMAIN assignments' = 1..Len(trainingPixels)
              /\ \A i \in 1..Len(trainingPixels) :
                    LowestNearest(assignments'[i], trainingPixels[i], codebook)]_vars

\* after the first iteration on a codebook seeded with two equal vectors:
\* both went to the first entry, and another vector differs from them
C17_Witness ==
    /\ iter = 1
    /\ Len(trainingPixels) > K
    /\ trainingPixels[1] = trainingPixels[2]
    /\ assignments[1] = 1
    /\ assignments[2] = 1
    /\ \E i \in 1..Len(trainingPixels) : trainingPixels[i] # trainingPixels[1]

\* the sum of channel ch over the training vectors with index in S
RECURSIVE SumOfChannel(_, _)
SumOfChannel(S, ch) ==
    IF S = {} THEN 0
    ELSE LET i == CHOOSE x \in S : TRUE
         IN  trainingPixels[i][ch] + SumOfChannel(S \ {i}, ch)

\* C18: after each update, an index with assigned vectors holds the
\* component-wise rounded mean of exactly the vectors assigned to it in that
\* iteration, an index without holds the colour of some training vector, and
\* every codebook channel is an integer in 0..255 at all times.
C18_UpdateRule ==
    [][/\ pc = "kmeans" =>
              /\ Len(codebook') = Len(codebook)
              /\ \A k \in 1..Len(codebook') :
                    LET members == {i \in 1..Len(trainingPixels) : assignments'[i] = k}
                    IN  IF members # {}
                        THEN \A ch \in 1..3 :
                                IsRounded(codebook'[k][ch], SumOfChannel(members, ch),
                                          Cardinality(members))
                        ELSE codebook'[k] \in Range(trainingPixels)
       /\ \A k \in 1..Len(codebook') : \A ch \in 1..3 : codebook'[k][ch] \in 0..255]_vars

\* after an update that produced a blended mean (no training vector has
\* that colour) and re-seeded an empty cluster
C18_Witness ==
    /\ iter >= 1
    /\ \E k \in 1..Len(codebook) : codebook[k] \notin Range(trainingPixels)
    /\ \E k \in 1..Len(codebook) : \A i \in 1..Len(assignments) : assignments[i] # k
\* some codebook entry differs from its value before the step by more than
\* the squared distance 1e-4
SomeEntryMoved ==
    \E k \in 1..Len(codebook) : SqDist(codebook'[k], codebook[k]) * 10000 > 1

\* C19: after each update step clustering terminates early exactly when no
\* codebook entry, recomputed or reinitialized, moved by more than squared
\* distance 1e-4; otherwise it continues, and at most MAX_ITERATIONS
\* iterations are executed.
C19_ConvergenceCheck ==
    [][pc = "kmeans" =>
          /\ iter' <= MAX_ITERATIONS
          /\ ~SomeEntryMoved => pc' = "reconstruct"
          /\ (SomeEntryMoved /\ iter' < MAX_ITERATIONS) => pc' = "kmeans"]_vars
\* C20: for every pixel of the decoded buffer, visible or not, the output
\* RGB is the codebook entry of lowest index at minimum squared distance to
\* the pixel's input RGB, as a search made for that pixel alone would give;
\* the cache keyed by the RGB triple changes no pixel's result.
C20_MemoizedMapperIsDirect ==
    Mapped =>
        /\ Len(newImageData.data) = Len(imgData)
        /\ \A i \in 1..Len(imgData) :
              \E j \in 1..Len(codebook) :
                  /\ LowestNearest(j, Rgb(imgData[i]), codebook)
                  /\ Rgb(newImageData.data[i]) = codebook[j]

\* a reconstruction in which the cache was hit (a colour occurs at two
\* pixels, once visible and once not) while the codebook holds two colours
\* and another pixel has a different colour
C20_Witness ==
    /\ Mapped
    /\ \E i, j \in 1..Len(imgData) :
          /\ i < j
          /\ Rgb(imgData[i]) = Rgb(imgData[j])
          /\ imgData[i][4] <= AlphaThreshold
          /\ imgData[j][4] > AlphaThreshold
    /\ \E i, j \in 1..Len(imgData) : Rgb(imgData[i]) # Rgb(imgData[j])
    /\ \E j, k \in 1..Len(codebook) : codebook[j] # codebook[k]
\* what an invocation s that runs alone satisfies: every value it holds is
\* determined by its own file, its own decoded buffer and its own random
\* choices (the training set drawn, the codebook reached)
RunsAsAlone(s) ==
    /\ s.pc \in {"reading", "loading"} =>
          /\ s.imgData = <<>>
          /\ s.pixels = <<>>
          /\ s.trainingPixels = <<>>
          /\ s.codebook = <<>>
          /\ s.assignments = <<>>
          /\ s.newImageData = NoImageData
          /\ s.promise = [state |-> "pending", reason |-> "", value |-> NoResult]
    /\ s.pixels # <<>> => s.pixels = VisiblePixels(s.imgData)
    /\ s.trainingPixels # <<>> => s.trainingPixels \in Subsamples(s.pixels)
    /\ s.codebook # <<>> =>
          /\ s.trainingPixels # <<>>
          /\ Len(s.codebook) = Len(SeedCodebook(s.trainingPixels))
          /\ s.iter = 0 => s.codebook = SeedCodebook(s.trainingPixels)
          /\ s.iter >= 1 =>
                /\ DOMAIN s.assignments = 1..Len(s.trainingPixels)
                /\ \A k \in 1..Len(s.codebook) :
                      IF Counts(s.trainingPixels, s.assignments)[k] > 0
                      THEN s.codebook[k] =
                               NewCentroid(NewCodebookSums(s.trainingPixels, s.assignments)[k],
                                           Counts(s.trainingPixels, s.assignments)[k])
                      ELSE s.codebook[k] \in Range(s.trainingPixels)
    /\ s.newImageData # NoImageData =>
          /\ s.newImageData.width = s.width
          /\ s.newImageData.height = s.height
          /\ Len(s.newImageData.data) = Len(s.imgData)
          /\ \A i \in 1..Len(s.imgData) :
                /\ s.newImageData.data[i][4] = s.imgData[i][4]
                /\ \E j \in 1..Len(s.codebook) :
                      /\ LowestNearest(j, Rgb(s.imgData[i]), s.codebook)
                      /\ Rgb(s.newImageData.data[i]) = s.codebook[j]
    /\ s.promise.state = "fulfilled" =>
          /\ s.originalDataUrl = DataUrl(s.file.type, "file", <<>>)
          /\ s.promise.value =
                 Select(s.file, s.originalDataUrl,
                        DataUrl("image/png", "canvas", s.newImageData.data),
                        s.vqCompressedSize)
    /\ s.promise.state = "rejected" =>
          /\ s.promise.reason \in ErrorMessages
          /\ s.promise.value = NoResult

\* C13: with two invocations in flight and their callbacks interleaved in
\* any order, each invocation holds at every moment what it would hold
\* running alone with the same random choices, a callback of one invocation
\* changes nothing of the other, and an invocation whose callback runs next
\* finds exactly the values it left.
C13_InvocationsIsolated ==
    /\ [](RunsAsAlone(Snapshot) /\ RunsAsAlone(other))
    /\ [][other' # other => (other' = Snapshot /\ Snapshot' = other)]_vars

\* this invocation has fulfilled its promise with a quantized image while
\* the other one is between its reader callback and its image callback: the
\* other's reader callback ran before this one's image callback
C13_Witness ==
    /\ pc = "done"
    /\ Fulfilled
    /\ codebook # <<>>
    /\ other.pc = "loading"
    /\ other.originalDataUrl # NoDataUrl
\* ---- a run replayed from its input ---------------------------------------
\* the lowest index of cb nearest to v
DirectIndex(v, cb) == CHOOSE j \in 1..Len(cb) : LowestNearest(j, v, cb)
\* the vectors of tp nearest to entry k of cb
Members(tp, cb, k) == {i \in 1..Len(tp) : DirectIndex(tp[i], cb) = k}
\* the sum of channel ch of tp over the indices in S
RECURSIVE SumOver(_, _, _)
SumOver(tp, S, ch) ==
    IF S = {} THEN 0
    ELSE LET i == CHOOSE x \in S : TRUE
         IN  tp[i][ch] + SumOver(tp, S \ {i}, ch)
\* the rounded mean colour of the vectors of tp with index in S (S not empty)
RoundedMean(tp, S) ==
    [ch \in 1..3 |->
        LET num == SumOver(tp, S, ch)
            den == Cardinality(S)
        IN  CHOOSE r \in {num \div den, (num \div den) + 1} : IsRounded(r, num, den)]
NoClusterEmpty(tp, cb) == \A k \in 1..Len(cb) : Members(tp, cb, k) # {}
\* the codebook one iteration after cb when no cluster is empty
MeansOf(tp, cb) == [k \in 1..Len(cb) |-> RoundedMean(tp, Members(tp, cb, k))]
\* no entry of cb moves in the iteration that starts from cb
Settled(tp, cb) ==
    \A k \in 1..Len(cb) : SqDist(MeansOf(tp, cb)[k], cb[k]) * 10000 <= 1
\* the codebook after n iterations of a run without empty clusters
RECURSIVE CodebookAfter(_, _)
CodebookAfter(tp, n) ==
    IF n = 0
    THEN [j \in 1..(IF Len(tp) < K THEN Len(tp) ELSE K) |-> tp[j]]
    ELSE MeansOf(tp, CodebookAfter(tp, n - 1))
\* no cluster is empty in any of the first n iterations
NeverEmptyUpTo(tp, n) ==
    \A m \in 0..(n - 1) : NoClusterEmpty(tp, CodebookAfter(tp, m))
\* n is not beyond the iteration at which a run without empty clusters
\* stops: no earlier iteration left every entry in place
NotPastLast(tp, n) ==
    /\ n <= MAX_ITERATIONS
    /\ \A m \in 1..(n - 1) : ~Settled(tp, CodebookAfter(tp, m - 1))
\* n is the iteration at which a run without empty clusters stops
IsLastIteration(tp, n) ==
    /\ n >= 1
    /\ NotPastLast(tp, n)
    /\ Settled(tp, CodebookAfter(tp, n - 1)) \/ n = MAX_ITERATIONS
\* the output buffer for a decoded buffer and a codebook
DirectOutput(data, cb) ==
    [i \in 1..Len(data) |->
        LET c == cb[DirectIndex(Rgb(data[i]), cb)]
        IN  <<c[1], c[2], c[3], data[i][4]>>]

\* C21: for a decoded buffer with at most PIXEL_SAMPLE_SIZE visible pixels
\* and a run in which no cluster is ever empty, the training set, the
\* codebook after every iteration, the number of iterations and the output
\* buffer are functions of the decoded buffer alone: any two such runs agree.
C21_DeterminismBoundary ==
    (Seeded /\ Len(pixels) <= PIXEL_SAMPLE_SIZE /\ NeverEmptyUpTo(pixels, iter)) =>
        /\ trainingPixels = pixels
        /\ codebook = CodebookAfter(pixels, iter)
        /\ NotPastLast(pixels, iter)
        /\ Clustered => IsLastIteration(pixels, iter)
        /\ Mapped => newImageData.data = DirectOutput(imgData, codebook)

\* a finished run without subsampling and without empty clusters that took
\* two iterations and moved the codebook away from its seed
C21_Witness ==
    /\ Mapped
    /\ Len(pixels) <= PIXEL_SAMPLE_SIZE
    /\ NeverEmptyUpTo(pixels, iter)
    /\ iter = 2
    /\ codebook # CodebookAfter(pixels, 0)
\* C22: for every accepted file (its type starts with image/) the mimeType
\* of the resolved result is image/png or image/jpeg, as VQResult declares.
C22_MimeTypeDeclared ==
    Fulfilled => promise.value.mimeType \in {"image/png", "image/jpeg"}
\* C23: visualExplanation is null or holds the bounding boxes computed for
\* the file whose processedImage and analysisResult are stored: no call
\* writes its boxes after a later call has reset the state.
C23_ExplanationOfStoredFile ==
    \/ app.visualExplanation = NoBoxes
    \/ /\ app.visualExplanation.of = app.processedImage.of
       /\ app.visualExplanation.of = app.analysisResult.of

\* C24: whenever isLoading is true (the uploader is disabled) it is
\* eventually false again, the diagnosis call being assumed to settle.
C24_LoadingEnds == app.isLoading ~> ~app.isLoading

\* C25: a call of handleFileSelect with a file whose type does not start
\* with image/ sets the error message and nothing else: the pipeline is not
\* invoked, isLoading and the six result fields keep their values.
C25_InvalidFileOnlySetsError ==
    [][(/\ Len(calls') = Len(calls) + 1
        /\ ~StartsWithImage(calls'[Len(calls')].file.type)) =>
           /\ app' = [app EXCEPT !.error = ErrInvalidType]
           /\ app'.error = ErrInvalidType
           /\ pipeline' = pipeline
           /\ calls'[Len(calls')].stage = "returned"
           /\ \A i \in 1..Len(calls) : calls'[i] = calls[i]]_vars

\* a file of another type was passed after an image had been diagnosed, and
\* the results of that image are still stored
C25_Witness ==
    /\ Len(calls) >= 2
    /\ ~StartsWithImage(calls[Len(calls)].file.type)
    /\ app.error = ErrInvalidType
    /\ app.processedImage # NoImage
    /\ app.analysisResult # NoAnalysis
    /\ app.visualExplanation # NoBoxes
====
